---- MODULE Spec2Model ----
(***************************************************************************)
(* Model of ndindex/ndindex.py: the NDIndex base class and the Slice and   *)
(* Integer index types, their constructors, `raw`, and `==`.               *)
(*                                                                         *)
(* Python values are records [tag, val]: None, int k, and one value that   *)
(* operator.index() refuses (a str).  An object is a record               *)
(* [id, cls, args]: `id` is the object's identity, `args` its args tuple. *)
(***************************************************************************)
EXTENDS Integers, Sequences, FiniteSets, TLC

\* ---------------------------------------------------------------- bounds
MaxInt == 2

\* Axis lengths tried when indexing; beyond 2*MaxInt+1 nothing new happens
\* for endpoints within -MaxInt..MaxInt.
MaxAxis == 2 * MaxInt + 2

\* ---------------------------------------------------------------- values
None == [tag |-> "None", val |-> 0]

I(k) == [tag |-> "int", val |-> k]

NotInt == [tag |-> "str", val |-> 0]

Ints == {I(k) : k \in (0 - MaxInt)..MaxInt}

IntOrNone == Ints \cup {None}

Values == IntOrNone \cup {NotInt}

IsInt(v) == v.tag = "int"

\* positional argument lists of a Slice(...) call: one, two or three args
SliceCalls == {<<a>> : a \in Values}
              \cup {<<a, b>> : a \in Values, b \in Values}
              \cup {<<a, b, c>> : a \in Values, b \in Values, c \in Values}

Abs(x) == IF x < 0 THEN 0 - x ELSE x

\* ---------------------------------------------------------------- range()
\* RangeLen rounding the quotient down: the last, partial stride is lost
RangeLen_floor(start, stop, step) ==
    LET lo == IF step > 0 THEN start ELSE stop
        hi == IF step > 0 THEN stop ELSE start
    IN IF lo >= hi THEN 0 ELSE (hi - lo) \div Abs(step)

\* len(range(start, stop, step)) for step # 0, as CPython computes it.
RangeLen(start, stop, step) ==
    LET lo == IF step > 0 THEN start ELSE stop
        hi == IF step > 0 THEN stop ELSE start
    IN IF lo >= hi THEN 0 ELSE ((hi - lo - 1) \div Abs(step)) + 1

\* list(range(start, stop, step))
RangeSeq(start, stop, step) ==
    [i \in 1..RangeLen(start, stop, step) |-> start + (i - 1) * step]

\* ---------------------------------------------------------------- results
\* Outcome of a constructor: an exception, or the class and args tuple of
\* the object to allocate.
Raise(e) == [exc |-> e, cls |-> "", args |-> <<>>]

\* NDIndex.__new__(cls, *args): obj.args = args
NDIndex_new(cls, args) == [exc |-> "none", cls |-> cls, args |-> args]

\* operator.index(v): the int itself, TypeError for anything else
index_ok(v) == IsInt(v)

\* Integer.__new__(cls, idx)
Integer_new(idx) ==
    IF ~index_ok(idx) THEN Raise("TypeError")
    ELSE NDIndex_new("Integer", <<idx>>)

\* def __new__(cls, start, stop=None, step=None): binding of positionals
BindArgs(a) ==
    [start |-> a[1],
     stop  |-> IF Len(a) >= 2 THEN a[2] ELSE None,
     step  |-> IF Len(a) >= 3 THEN a[3] ELSE None]

\* DefaultStep with the wrong default
DefaultStep_wrong(step) == IF step = None THEN I(0 - 1) ELSE step

\* if step is None: step = 1
DefaultStep(step) == IF step = None THEN I(1) ELSE step

\* StepIsZero with the check dropped
StepIsZero_never(step) == FALSE

\* if step == 0: raise ValueError
StepIsZero(step) == step = I(0)

\* SignsAgree with strict comparisons
SignsAgree_strict(start, stop, step) ==
    \/ step > 0 /\ start < stop
    \/ step < 0 /\ stop < start

\* SignsAgree left out: every empty range is canonicalized
SignsAgree_any(start, stop, step) == TRUE

\* (step > 0 and start <= stop) or (step < 0 and stop <= start)
SignsAgree(start, stop, step) ==
    \/ step > 0 /\ start <= stop
    \/ step < 0 /\ stop <= start

\* start, stop, step = 0, 0, 1
CanonEmpty == <<I(0), I(0), I(1)>>

\* Slice.__new__(cls, *a)
Slice_new(a) ==
    LET b    == BindArgs(a)
        step == DefaultStep(b.step)
    IN
    IF StepIsZero(step) THEN Raise("ValueError")
    ELSE IF b.start # None /\ ~index_ok(b.start) THEN Raise("TypeError")
    ELSE IF b.stop # None /\ ~index_ok(b.stop) THEN Raise("TypeError")
    ELSE IF ~index_ok(step) THEN Raise("TypeError")
    ELSE IF b.start # None /\ b.stop # None
    THEN
        \* range(start, stop, 0) raises ValueError
        IF step.val = 0 THEN Raise("ValueError")
        ELSE
        LET n == RangeLen(b.start.val, b.stop.val, step.val)
            t == IF n = 0 /\ SignsAgree(b.start.val, b.stop.val, step.val)
                 THEN CanonEmpty
                 ELSE <<b.start, b.stop, step>>
        IN IF n = 1
           THEN Integer_new(I(RangeSeq(b.start.val, b.stop.val, step.val)[1]))
           ELSE NDIndex_new("Slice", t)
    ELSE NDIndex_new("Slice", <<b.start, b.stop, step>>)

\* Slice_raw that forgets the step
Slice_raw_nostep(o) == [start |-> o.args[1], stop |-> o.args[2], step |-> None]

\* Slice.raw: slice(*self.args)
Slice_raw(o) == [start |-> o.args[1], stop |-> o.args[2], step |-> o.args[3]]

\* Integer.raw: self.args[0]
Integer_raw(o) == o.args[1]

\* NDIndex defines __hash__ but no __eq__: a == b is object identity
NDIndex_eq(x, y) == x.id = y.id

\* ---------------------------------------------------------------- indexing
\* a[raw] for a = arange(n): the outcome of subscripting a 1-D array
Selected(ndim, pos) == [exc |-> "none", ndim |-> ndim, pos |-> pos]

IndexError == [exc |-> "IndexError", ndim |-> 0, pos |-> <<>>]

Clamp(x, lo, hi) == IF x < lo THEN lo ELSE IF x > hi THEN hi ELSE x

\* a[i]: valid for -n <= i < n, negative i counts from the end, axis dropped
GetItemInt(n, i) ==
    IF i < 0 - n \/ i >= n THEN IndexError
    ELSE Selected(0, <<IF i >= 0 THEN i ELSE i + n>>)

\* endpoint of a slice on an axis of length n: absent takes the default,
\* negative is counted from the end, then clamped into [lo, hi]
Endpoint(v, dflt, n, lo, hi) ==
    IF v = None THEN dflt
    ELSE Clamp(IF v.val < 0 THEN v.val + n ELSE v.val, lo, hi)

\* a[start:stop:step]
GetItemSlice(n, s) ==
    LET step == IF s.step = None THEN 1 ELSE s.step.val
        lo == IF step > 0 THEN 0 ELSE 0 - 1
        hi == IF step > 0 THEN n ELSE n - 1
        start == Endpoint(s.start, IF step > 0 THEN 0 ELSE n - 1, n, lo, hi)
        stop == Endpoint(s.stop, IF step > 0 THEN n ELSE 0 - 1, n, lo, hi)
    IN Selected(1, RangeSeq(start, stop, step))

\* the builtin slice(*a): one argument is the stop
builtin_slice(a) ==
    [start |-> IF Len(a) >= 2 THEN a[1] ELSE None,
     stop  |-> IF Len(a) >= 2 THEN a[2] ELSE a[1],
     step  |-> IF Len(a) >= 3 THEN a[3] ELSE None]

\* a[idx.raw]
GetItemRaw(n, o) ==
    IF o.cls = "Integer" THEN GetItemInt(n, Integer_raw(o).val)
    ELSE GetItemSlice(n, Slice_raw(o))

\* ---------------------------------------------------------------- state
VARIABLES
    pc,     \* position of the caller: start, built, indexed, rebuilt, compared
    heap,   \* the objects allocated so far, heap[i].id = i
    calls,  \* the constructor calls made so far, with their outcome
    sel,    \* a[S.raw] and a[raw index] on an axis of length sel.n
    eq      \* the value of S == T once evaluated

vars == <<pc, heap, calls, sel, eq>>

NoSel == [n |-> 0 - 1, got |-> IndexError, want |-> IndexError]

NoEq == [done |-> FALSE, val |-> FALSE]

Init ==
    /\ pc = "start"
    /\ heap = <<>>
    /\ calls = <<>>
    /\ sel = NoSel
    /\ eq = NoEq

\* Run constructor `fn` on `a`; an object is allocated only if it returns.
Construct(fn, a) ==
    LET r == IF fn = "Slice" THEN Slice_new(a) ELSE Integer_new(a[1])
        id == Len(heap) + 1
    IN /\ heap' = IF r.exc = "none"
                  THEN Append(heap, [id |-> id, cls |-> r.cls, args |-> r.args])
                  ELSE heap
       /\ calls' = Append(calls, [fn |-> fn, args |-> a, exc |-> r.exc,
                                  ret |-> IF r.exc = "none" THEN id ELSE 0])

\* S = Slice(*a)
CallSlice ==
    /\ pc = "start"
    /\ \E a \in SliceCalls : Construct("Slice", a)
    /\ pc' = "built"
    /\ UNCHANGED <<sel, eq>>

\* S = Integer(v)
CallInteger ==
    /\ pc = "start"
    /\ \E v \in Values : Construct("Integer", <<v>>)
    /\ pc' = "built"
    /\ UNCHANGED <<sel, eq>>

Returned == pc # "start" /\ calls[1].ret # 0

\* a = arange(n); a[S.raw] against a[raw] for the raw index S was built from
GetItem ==
    /\ pc = "built"
    /\ Returned
    /\ \E n \in 0..MaxAxis :
        sel' = [n |-> n,
                got |-> GetItemRaw(n, heap[1]),
                want |-> IF calls[1].fn = "Integer"
                         THEN GetItemInt(n, calls[1].args[1].val)
                         ELSE GetItemSlice(n, builtin_slice(calls[1].args))]
    /\ pc' = "indexed"
    /\ UNCHANGED <<heap, calls, eq>>

\* T = Integer(S.raw), or T = Slice(r.start, r.stop, r.step) for r = S.raw
FromRaw ==
    /\ pc = "built"
    /\ Returned
    /\ IF heap[1].cls = "Integer"
       THEN Construct("Integer", <<Integer_raw(heap[1])>>)
       ELSE LET r == Slice_raw(heap[1])
            IN Construct("Slice", <<r.start, r.stop, r.step>>)
    /\ pc' = "rebuilt"
    /\ UNCHANGED <<sel, eq>>

\* the value of S == T
Compared ==
    IF Len(heap') = 2
    THEN [done |-> TRUE, val |-> NDIndex_eq(heap'[1], heap'[2])]
    ELSE NoEq

\* S == Slice(*a): the right operand is constructed, then compared with S
CompareSlice ==
    /\ pc = "built"
    /\ Returned
    /\ \E a \in SliceCalls : Construct("Slice", a)
    /\ eq' = Compared
    /\ pc' = "compared"
    /\ UNCHANGED sel

\* S == Integer(v)
CompareInteger ==
    /\ pc = "built"
    /\ Returned
    /\ \E v \in Values : Construct("Integer", <<v>>)
    /\ eq' = Compared
    /\ pc' = "compared"
    /\ UNCHANGED sel

Next ==
    \/ CallSlice
    \/ CallInteger
    \/ GetItem
    \/ FromRaw
    \/ CompareSlice
    \/ CompareInteger

Spec == Init /\ [][Next]_vars

\* ---------------------------------------------------------------- helpers
CallIds == 1..Len(calls)

\* the object call i returned
Obj(i) == heap[calls[i].ret]

\* a Slice(...) call that returned
SliceReturned(i) == calls[i].fn = "Slice" /\ calls[i].ret # 0

\* the k-th parameter of call i, absent when not passed
Param(i, k) == IF Len(calls[i].args) >= k THEN calls[i].args[k] ELSE None

ExplicitEnds(i) == IsInt(Param(i, 1)) /\ IsInt(Param(i, 2))

StepOf(i) == IF Param(i, 3) = None THEN 1 ELSE Param(i, 3).val

\* start, start+step, ... stopping strictly before stop in the direction
\* of step
AbstractRange(start, stop, step) ==
    {x \in {start + k * step : k \in 0..(2 * MaxInt)} :
        \/ step > 0 /\ x < stop
        \/ step < 0 /\ x > stop}

RangeOf(i) == AbstractRange(Param(i, 1).val, Param(i, 2).val, StepOf(i))

\* s selects nothing from an axis of any length
ProvablyEmpty(s) == \A n \in 0..MaxAxis : GetItemSlice(n, s).pos = <<>>

\* ---------------------------------------------------------------- claims

\* C1: indexing a 1-D array of length n with Slice(start, stop, step).raw
\* gives the same outcome (positions, order, dimensionality, error) as
\* indexing with slice(start, stop, step).
C1_SameIndexing ==
    (pc = "indexed" /\ calls[1].fn = "Slice" /\ Len(calls[1].args) = 3)
        => sel.got = sel.want

\* C2: every slice (start, stop, step) that selects nothing from an axis of
\* any length is constructed as the Slice with fields (0, 0, 1).
C2_CanonicalEmpty ==
    \A i \in CallIds :
        (/\ SliceReturned(i)
         /\ Len(calls[i].args) = 3
         /\ ProvablyEmpty(builtin_slice(calls[i].args)))
        => (Obj(i).cls = "Slice" /\ Obj(i).args = CanonEmpty)

\* C3: two values from separate constructor calls compare equal exactly
\* when they have the same variant and the same fields.
C3_StructuralEq ==
    (pc = "compared" /\ eq.done)
        => (eq.val <=> (heap[1].cls = heap[2].cls /\ heap[1].args = heap[2].args))

\* C4: Slice(x) with one integer argument x has fields (None, x, 1), as
\* Slice(None, x) has.
C4_SingleArgIsStop ==
    \A i \in CallIds :
        (SliceReturned(i) /\ Len(calls[i].args) = 1 /\ Obj(i).cls = "Slice")
        => Obj(i).args = <<None, calls[i].args[1], I(1)>>

C6_RoundTrip ==
    pc = "rebuilt"
        => /\ calls[2].ret = 2
           /\ heap[2].cls = heap[1].cls
           /\ heap[2].args = heap[1].args

C6_Witness ==
    /\ pc = "rebuilt"
    /\ calls[1].args = <<I(1), I(1), I(0 - 2)>>
    /\ Len(heap) = 2
    /\ heap[2].cls = "Slice"
    /\ heap[2].args = CanonEmpty

\* C7: Slice(start, stop, 0) raises ValueError and returns nothing, whatever
\* start and stop are, integer-convertible or not.
C7_ZeroStepRejected ==
    \A i \in CallIds :
        (calls[i].fn = "Slice" /\ Param(i, 3) = I(0))
        => (calls[i].exc = "ValueError" /\ calls[i].ret = 0)

C7_Witness ==
    /\ pc = "built"
    /\ calls[1].args = <<NotInt, NotInt, I(0)>>
    /\ calls[1].exc = "ValueError"
    /\ heap = <<>>

C9_DegenerateEmpty ==
    \A i \in CallIds :
        (/\ SliceReturned(i)
         /\ ExplicitEnds(i)
         /\ RangeOf(i) = {}
         /\ \/ StepOf(i) > 0 /\ Param(i, 1).val <= Param(i, 2).val
            \/ StepOf(i) < 0 /\ Param(i, 2).val <= Param(i, 1).val)
        => (Obj(i).cls = "Slice" /\ Obj(i).args = CanonEmpty)

C9_Witness ==
    /\ pc = "built"
    /\ calls[1].args = <<I(2), I(2), I(0 - 1)>>
    /\ heap = <<[id |-> 1, cls |-> "Slice", args |-> CanonEmpty]>>

====
